---- MODULE Spec2Model ----
(***************************************************************************)
(* Model of the OpenRouter client: the ApiKeyAuth strategy (auth.rs), the  *)
(* type-state ClientBuilder, the endpoint methods and the response         *)
(* classification of Client::handle_response (client.rs), with the record  *)
(* shapes that serde derives for the response types (types.rs).            *)
(*                                                                         *)
(* Text that the code inspects byte by byte (header values) is a sequence  *)
(* of byte codes; text that the code only copies is a TLA+ string.         *)
(* Option<T> is a sequence of length 0 (None) or 1 (Some).                 *)
(***************************************************************************)
EXTENDS Integers, Sequences, FiniteSets, TLC

VARIABLES
    builder,    \* Option<ClientBuilder<A>>: the builder value, until build consumes it
    ops,        \* the ClientBuilder operations called so far, in order
    args,       \* the argument of each of those operations: <<>> or <<argument>>
    client,     \* Option<Client>
    pc,         \* where the endpoint call in progress is: idle, send, handle, done, panicked
    call,       \* Option of the endpoint call in progress
    headers,    \* the HeaderMap of the call in progress
    response,   \* Option of the response the transport delivered
    result,     \* Option of the Result the call returns
    sent,       \* the HTTP requests the call in progress has handed to the transport
    tasks,      \* the calls of the concurrent callers that share the Client
    request,    \* Option<CreateChatCompletionRequest>: the request under construction
    lastCall,   \* Option of the last call made on that request, with its argument
    payload     \* Option of the serialized request

vars == <<builder, ops, args, client, pc, call, headers, response, result, sent, tasks,
          request, lastCall, payload>>

-----------------------------------------------------------------------------
(* Bounds and input domains                                                *)

MaxCatalog == 2

\* how many times base_url is called on one builder
MaxBaseUrlCalls == 1

None == <<>>
Some(v) == <<v>>

DEFAULT_BASE_URL == "https://openrouter.ai/api/v1"

BaseUrls == {"https://custom.api.com"}

\* "sk", and "s\n" (a key with a line feed in it)
ApiKeys == {<<115, 107>>, <<115, 10>>}

\* "u", and "u\r"
SiteUrls == {<<117>>, <<117, 13>>}

\* "N", the empty name, and "N\0"
SiteNames == {<<78>>, <<>>, <<78, 0>>}

ModelIds == {"a", "c"}

GenerationIds == {"g1"}

\* 1xx, 2xx, 3xx, 4xx in and out of the table, 5xx and its two neighbours
Statuses == {199, 200, 299, 300, 400, 401, 402, 403, 404, 418, 429, 499,
             500, 503, 599, 600}

\* retry-after header: absent, "30", "7", "+5", "-5", "a", "", "1.5", one opaque byte
RetryAfterHeaders ==
    {None, Some(<<51, 48>>), Some(<<55>>), Some(<<43, 53>>), Some(<<45, 53>>),
     Some(<<97>>), Some(<<>>), Some(<<49, 46, 53>>), Some(<<233>>)}

-----------------------------------------------------------------------------
(* JSON field values of a response body                                    *)

Absent == [t |-> "absent", s |-> "", n |-> 0]
JNull == [t |-> "null", s |-> "", n |-> 0]
JStr(x) == [t |-> "str", s |-> x, n |-> 0]
JInt(i) == [t |-> "int", s |-> "", n |-> i]
JFloat(x) == [t |-> "float", s |-> x, n |-> 0]

I32Max == 2147483647

NoDetail == [message |-> Absent, type |-> Absent, code |-> Absent]

\* a body is one record shape: k says which document it is
Doc(k, raw, e, data, id) == [k |-> k, raw |-> raw, error |-> e, data |-> data, id |-> id]

\* a body that is not JSON
TextBody(raw) == Doc("text", raw, NoDetail, <<>>, Absent)
\* {"error": {"message": m, "type": t, "code": c}}
ErrorBody(m, t, c) == Doc("error", "", [message |-> m, type |-> t, code |-> c], <<>>, Absent)
\* {"error": "oops"}
ErrorStringBody == Doc("errorstr", "", NoDetail, <<>>, Absent)
\* {"data": [ {"id":..,"name":..,"context_length":1,"pricing":{..}} ... ]}
ModelsBody(data) == Doc("models", "", NoDetail, data, Absent)
\* {"id": id}
GenerationBody(id) == Doc("generation", "", NoDetail, <<>>, id)
\* {"id": id, "object": "chat.completion", "created": 1, "model": "m", "choices": []}
CompletionBody(id) == Doc("completion", "", NoDetail, <<>>, id)
\* {}
EmptyObjectBody == Doc("object", "", NoDetail, <<>>, Absent)
\* null
NullBody == Doc("null", "", NoDetail, <<>>, Absent)
\* the body could not be read from the connection
UnreadableBody == Doc("unreadable", "", NoDetail, <<>>, Absent)

ModelEntry(id, name) == [id |-> id, name |-> name]

\* two records share the id "a": catalog order is observable
CatalogModels == {ModelEntry(JStr("a"), JStr("x")), ModelEntry(JStr("a"), JStr("y")),
                  ModelEntry(JStr("b"), JStr("x"))}

RECURSIVE SeqsUpTo(_, _)
SeqsUpTo(S, n) ==
    IF n = 0 THEN {<<>>}
    ELSE LET shorter == SeqsUpTo(S, n - 1)
         IN shorter \cup {Append(q, x) : q \in {r \in shorter : Len(r) = n - 1}, x \in S}

Catalogs == SeqsUpTo(CatalogModels, MaxCatalog)

ErrorBodies ==
    {ErrorBody(JStr(m), t, c) :
        m \in {"m1", "m2"},
        t \in {Absent, JStr("invalid_request_error")},
        c \in {Absent, JNull, JInt(400), JInt(404), JInt(500)}}
    \cup {ErrorBody(JStr("m1"), Absent, JStr("invalid_api_key")),
          ErrorBody(JStr("m2"), JStr("invalid_request_error"), JStr("400")),
          ErrorBody(JStr("m1"), Absent, JFloat("400.5")),
          ErrorBody(JStr("m1"), JInt(7), JInt(400)),
          ErrorBody(JInt(5), Absent, JInt(400)),
          ErrorBody(JNull, Absent, Absent),
          ErrorBody(Absent, Absent, JInt(404)),
          ErrorStringBody}

Bodies ==
    ErrorBodies
    \cup {TextBody(""), TextBody("<html>Bad Gateway</html>")}
    \cup {ModelsBody(c) : c \in Catalogs}
    \cup {ModelsBody(<<ModelEntry(JStr("a"), Absent)>>),
          ModelsBody(<<ModelEntry(JInt(1), JStr("x"))>>)}
    \cup {GenerationBody(JStr("g1")), GenerationBody(JInt(1)), CompletionBody(JStr("c1")),
          EmptyObjectBody, NullBody, UnreadableBody}

-----------------------------------------------------------------------------
(* auth.rs: ApiKeyAuth                                                     *)

ApiKeyAuth_new(api_key) == [api_key |-> api_key, site_url |-> None, site_name |-> None]

with_site_url(auth, url) == [auth EXCEPT !.site_url = Some(url)]

with_site_name(auth, name) == [auth EXCEPT !.site_name = Some(name)]

\* every strategy the fluent constructors can produce
Strategies ==
    LET keyed == {ApiKeyAuth_new(k) : k \in ApiKeys}
        withUrl == keyed \cup {with_site_url(a, u) : a \in keyed, u \in SiteUrls}
    IN withUrl \cup {with_site_name(a, n) : a \in withUrl, n \in SiteNames}

\* "Bearer "
Bearer == <<66, 101, 97, 114, 101, 114, 32>>

\* str::parse::<HeaderValue>: a byte is accepted when it is a tab or is neither
\* a control character nor DEL
IsValidHeaderByte(b) == (b >= 32 /\ b # 127) \/ b = 9

IsValidHeaderValue(s) == \A i \in 1..Len(s) : IsValidHeaderByte(s[i])

HeaderMap_new == [n \in {} |-> <<>>]

\* HeaderMap::insert: the entry of that name is created or replaced
insert(h, name, value) ==
    [n \in (DOMAIN h) \cup {name} |-> IF n = name THEN value ELSE h[n]]

ApplyOk(h) == [outcome |-> "Ok", headers |-> h]
\* .unwrap() on a value that did not parse: the task panics, the headers are dropped
ApplyPanic(h) == [outcome |-> "Panic", headers |-> h]

\* a broken apply that writes a placeholder X-Title when no site name is configured
applyPlaceholder(auth, h) ==
    LET auth_value == Bearer \o auth.api_key
        h1 == insert(h, "authorization", auth_value)
        h2 == IF auth.site_url # None THEN insert(h1, "http-referer", auth.site_url[1]) ELSE h1
        h3 == IF auth.site_name # None THEN insert(h2, "x-title", auth.site_name[1])
              ELSE insert(h2, "x-title", <<>>)
    IN  IF ~IsValidHeaderValue(auth_value) THEN ApplyPanic(h)
        ELSE IF auth.site_url # None /\ ~IsValidHeaderValue(auth.site_url[1]) THEN ApplyPanic(h1)
        ELSE IF auth.site_name # None /\ ~IsValidHeaderValue(auth.site_name[1]) THEN ApplyPanic(h2)
        ELSE ApplyOk(h3)

\* ApiKeyAuth::apply, statement by statement
apply(auth, h) ==
    LET auth_value == Bearer \o auth.api_key
        h1 == insert(h, "authorization", auth_value)
        h2 == IF auth.site_url # None THEN insert(h1, "http-referer", auth.site_url[1]) ELSE h1
        h3 == IF auth.site_name # None THEN insert(h2, "x-title", auth.site_name[1]) ELSE h2
    IN  IF ~IsValidHeaderValue(auth_value) THEN ApplyPanic(h)
        ELSE IF auth.site_url # None /\ ~IsValidHeaderValue(auth.site_url[1]) THEN ApplyPanic(h1)
        ELSE IF auth.site_name # None /\ ~IsValidHeaderValue(auth.site_name[1]) THEN ApplyPanic(h2)
        ELSE ApplyOk(h3)

-----------------------------------------------------------------------------
(* client.rs: the retry-after header, lines 112-116                        *)

\* HeaderValue::to_str: only visible ASCII and tab make a str
to_str(v) ==
    IF \A i \in 1..Len(v) : (v[i] >= 32 /\ v[i] < 127) \/ v[i] = 9 THEN Some(v) ELSE None

IsDigit(b) == b >= 48 /\ b <= 57

RECURSIVE DigitsValue(_)
DigitsValue(s) ==
    IF Len(s) = 0 THEN 0
    ELSE 10 * DigitsValue(SubSeq(s, 1, Len(s) - 1)) + (s[Len(s)] - 48)

\* str::parse::<u64>: an optional '+', then one or more decimal digits
parse_u64(s) ==
    LET digits == IF Len(s) > 0 /\ s[1] = 43 THEN SubSeq(s, 2, Len(s)) ELSE s
    IN  IF Len(digits) > 0 /\ \A i \in 1..Len(digits) : IsDigit(digits[i])
        THEN Some(DigitsValue(digits)) ELSE None

unwrap_or(opt, d) == IF opt = None THEN d ELSE opt[1]

\* headers().get("retry-after").and_then(to_str).and_then(parse)
retry_after_of(header) ==
    LET value == IF header = None THEN None ELSE to_str(header[1])
    IN  IF value = None THEN None ELSE parse_u64(value[1])

-----------------------------------------------------------------------------
(* error.rs: OpenRouterError, and the Ok side of Result<T>                 *)

NoValue == [T |-> "", data |-> <<>>, id |-> ""]

Res(kind, status, message, retry_after, value) ==
    [kind |-> kind, status |-> status, message |-> message,
     retry_after |-> retry_after, value |-> value]

Ok(value) == Res("Ok", 0, "", 0, value)
Request == Res("Request", 0, "", 0, NoValue)
Api(status, message) == Res("Api", status, message, 0, NoValue)
RateLimited(retry_after) == Res("RateLimited", 0, "", retry_after, NoValue)
Unauthorized == Res("Unauthorized", 0, "", 0, NoValue)
Forbidden(message) == Res("Forbidden", 0, message, 0, NoValue)
NotFound(message) == Res("NotFound", 0, message, 0, NoValue)
Json == Res("Json", 0, "", 0, NoValue)
InvalidRequest(message) == Res("InvalidRequest", 0, message, 0, NoValue)
ServerError(message) == Res("ServerError", 0, message, 0, NoValue)
ContextLengthExceeded(message) == Res("ContextLengthExceeded", 0, message, 0, NoValue)
InsufficientCredits(message) == Res("InsufficientCredits", 0, message, 0, NoValue)
ModelNotAvailable(message) == Res("ModelNotAvailable", 0, message, 0, NoValue)

-----------------------------------------------------------------------------
(* The text of a body, as response.text() returns it                       *)

RenderValue(v) ==
    CASE v.t = "null" -> "null"
      [] v.t = "str" -> "\"" \o v.s \o "\""
      [] v.t = "int" -> ToString(v.n)
      [] v.t = "float" -> v.s
      [] OTHER -> ""

Member(name, v) == <<name, v>>

\* the members of a JSON object, comma separated; an absent field has no member
RECURSIVE RenderMembers(_)
RenderMembers(members) ==
    IF Len(members) = 0 THEN ""
    ELSE LET m == Head(members)
             rest == RenderMembers(Tail(members))
         IN  IF m[2].t = "absent" THEN rest
             ELSE "\"" \o m[1] \o "\":" \o RenderValue(m[2])
                    \o (IF rest = "" THEN "" ELSE "," \o rest)

RenderModel(m) == "{" \o RenderMembers(<<Member("id", m.id), Member("name", m.name)>>) \o "}"

RECURSIVE RenderModels(_)
RenderModels(data) ==
    IF Len(data) = 0 THEN ""
    ELSE RenderModel(Head(data))
            \o (IF Len(data) = 1 THEN "" ELSE "," \o RenderModels(Tail(data)))

text(body) ==
    CASE body.k = "text" -> body.raw
      [] body.k = "error" ->
            "{\"error\":{"
                \o RenderMembers(<<Member("message", body.error.message),
                                   Member("type", body.error.type),
                                   Member("code", body.error.code)>>)
                \o "}}"
      [] body.k = "errorstr" -> "{\"error\":\"oops\"}"
      [] body.k = "models" -> "{\"data\":[" \o RenderModels(body.data) \o "]}"
      [] body.k = "generation" -> "{" \o RenderMembers(<<Member("id", body.id)>>) \o "}"
      [] body.k = "completion" ->
            "{" \o RenderMembers(<<Member("id", body.id)>>) \o ",\"choices\":[]}"
      [] body.k = "object" -> "{}"
      [] body.k = "null" -> "null"
      [] OTHER -> ""

-----------------------------------------------------------------------------
(* types.rs: what serde_json::from_str accepts for each derived record     *)

\* a field of type String
IsString(v) == v.t = "str"
\* a field of type Option<String> with #[serde(default)]
IsOptString(v) == v.t \in {"absent", "null", "str"}
\* a field of type Option<i32> with #[serde(default)]
IsOptI32(v) == v.t \in {"absent", "null"} \/ (v.t = "int" /\ v.n >= -I32Max - 1 /\ v.n <= I32Max)

OptI32(v) == IF v.t = "int" THEN Some(v.n) ELSE None

\* ErrorResponse { error: ErrorDetail { message, type, code } }
ParseErrorResponse(body) ==
    IF /\ body.k = "error"
       /\ IsString(body.error.message)
       /\ IsOptString(body.error.type)
       /\ IsOptI32(body.error.code)
    THEN Some([message |-> body.error.message.s, code |-> OptI32(body.error.code)])
    ELSE None

\* Model { id: String, name: String, ... }
IsModel(m) == IsString(m.id) /\ IsString(m.name)

ModelOf(m) == [id |-> m.id.s, name |-> m.name.s]

Value(T, data, id) == [T |-> T, data |-> data, id |-> id]

\* serde_json::from_str::<T>(&body): Some(record) or None for a decode error
Decode(T, body) ==
    CASE T = "ModelList" ->
            IF body.k = "models" /\ \A i \in 1..Len(body.data) : IsModel(body.data[i])
            THEN Some(Value(T, [i \in 1..Len(body.data) |-> ModelOf(body.data[i])], ""))
            ELSE None
      [] T = "GenerationStats" ->
            IF body.k \in {"generation", "completion"} /\ IsString(body.id)
            THEN Some(Value(T, <<>>, body.id.s)) ELSE None
      [] T = "CreateChatCompletionResponse" ->
            IF body.k = "completion" /\ IsString(body.id)
            THEN Some(Value(T, <<>>, body.id.s)) ELSE None
      [] T = "CreditsResponse" ->
            \* every field is optional: any object decodes unless "data" has the wrong
            \* shape (a non-empty array of models has)
            IF body.k \in {"error", "errorstr", "generation", "completion", "object"}
               \/ (body.k = "models" /\ Len(body.data) = 0)
            THEN Some(Value(T, <<>>, "")) ELSE None
      [] OTHER -> None

-----------------------------------------------------------------------------
(* client.rs: Client::handle_response                                      *)

is_success(status_code) == status_code >= 200 /\ status_code <= 299

\* a variant of the vendor-code fallback with the two codes exchanged
CodeErrorSwapped(status_code, message, code) ==
    IF code = Some(400) THEN ModelNotAvailable(message)
    ELSE IF code = Some(404) THEN InvalidRequest(message)
    ELSE Api(status_code, message)

\* the inner match on the vendor code, lines 140-147
CodeError(status_code, message, code) ==
    IF code = Some(400) THEN InvalidRequest(message)
    ELSE IF code = Some(404) THEN ModelNotAvailable(message)
    ELSE Api(status_code, message)

\* a variant of the status match whose server-error range stops at 598
StatusErrorShortRange(status_code, message, code, retry_after) ==
    CASE status_code = 401 -> Unauthorized
      [] status_code = 402 -> InsufficientCredits(message)
      [] status_code = 403 -> Forbidden(message)
      [] status_code = 404 -> NotFound(message)
      [] status_code = 429 -> RateLimited(unwrap_or(retry_after, 60))
      [] status_code >= 500 /\ status_code <= 598 -> ServerError(message)
      [] OTHER -> CodeError(status_code, message, code)

\* a variant of the status match that takes a missing retry hint as zero
StatusErrorNoDefault(status_code, message, code, retry_after) ==
    CASE status_code = 401 -> Unauthorized
      [] status_code = 402 -> InsufficientCredits(message)
      [] status_code = 403 -> Forbidden(message)
      [] status_code = 404 -> NotFound(message)
      [] status_code = 429 -> RateLimited(unwrap_or(retry_after, 0))
      [] status_code >= 500 /\ status_code <= 599 -> ServerError(message)
      [] OTHER -> CodeError(status_code, message, code)

\* the match on the status code, lines 131-148
StatusError(status_code, message, code, retry_after) ==
    CASE status_code = 401 -> Unauthorized
      [] status_code = 402 -> InsufficientCredits(message)
      [] status_code = 403 -> Forbidden(message)
      [] status_code = 404 -> NotFound(message)
      [] status_code = 429 -> RateLimited(unwrap_or(retry_after, 60))
      [] status_code >= 500 /\ status_code <= 599 -> ServerError(message)
      [] OTHER -> CodeError(status_code, message, code)

\* a variant of the error branch that reports an undecodable error body as a JSON error
ErrorBranchStrict(status_code, body, retry_after) ==
    IF body.k = "unreadable" THEN Request
    ELSE LET error_response == ParseErrorResponse(body)
         IN  IF error_response # None
             THEN StatusError(status_code, error_response[1].message,
                              error_response[1].code, retry_after)
             ELSE Json

\* the else branch, lines 122-155
ErrorBranch(status_code, body, retry_after) ==
    IF body.k = "unreadable" THEN Request
    ELSE LET error_response == ParseErrorResponse(body)
         IN  IF error_response # None
             THEN StatusError(status_code, error_response[1].message,
                              error_response[1].code, retry_after)
             ELSE Api(status_code, text(body))

\* a variant of the success branch that answers an undecodable body with an empty record
SuccessBranchLenient(T, body) ==
    IF body.k = "unreadable" THEN Request
    ELSE LET decoded == Decode(T, body)
         IN  IF decoded # None THEN Ok(decoded[1]) ELSE Ok(Value(T, <<>>, ""))

\* the if branch, lines 118-121
SuccessBranch(T, body) ==
    IF body.k = "unreadable" THEN Request
    ELSE LET decoded == Decode(T, body)
         IN  IF decoded # None THEN Ok(decoded[1]) ELSE Json

handle_response(T, resp) ==
    LET status_code == resp.status
        retry_after == retry_after_of(resp.retry_after)
    IN  IF is_success(status_code) THEN SuccessBranch(T, resp.body)
        ELSE ErrorBranch(status_code, resp.body, retry_after)

-----------------------------------------------------------------------------
(* client.rs: Client::get_model, lines 43-50                               *)

\* a variant of the search that keeps the last match
find_last(data, model_id) ==
    LET hits == {i \in 1..Len(data) : data[i].id = model_id}
    IN  IF hits = {} THEN None
        ELSE Some(data[CHOOSE i \in hits : \A j \in hits : j <= i])

\* Iterator::find: the first element the predicate accepts
RECURSIVE find(_, _)
find(data, model_id) ==
    IF Len(data) = 0 THEN None
    ELSE IF Head(data).id = model_id THEN Some(Head(data))
    ELSE find(Tail(data), model_id)

\* what get_model makes of the result of list_models
get_model_result(models, model_id) ==
    IF models.kind # "Ok" THEN models
    ELSE LET found == find(models.value.data, model_id)
         IN  IF found # None THEN Ok(Value("Model", <<found[1]>>, found[1].id))
             ELSE NotFound("Model not found: " \o model_id)

-----------------------------------------------------------------------------
(* client.rs: ClientBuilder<A>, lines 159-204                              *)

\* a variant of the bound that every type satisfies
IsAnyType(a) == TRUE

\* the bound A: AuthStrategy of the impl block at line 189; the unit type of a
\* fresh builder (None here) has no AuthStrategy impl
IsAuthStrategy(a) == a # None

\* the impl block for ClientBuilder<()>, line 165
IsUnit(a) == a = None

ClientBuilder_new == [auth |-> None, base_url |-> DEFAULT_BASE_URL]

ClientBuilder_auth(b, strategy) == [auth |-> Some(strategy), base_url |-> b.base_url]

\* a variant of base_url that keeps an override already made
ClientBuilder_base_url_once(b, url) ==
    IF b.base_url = DEFAULT_BASE_URL THEN [b EXCEPT !.base_url = url] ELSE b

ClientBuilder_base_url(b, url) == [b EXCEPT !.base_url = url]

ClientBuilder_build(b) == [auth |-> b.auth, base_url |-> b.base_url]

CountOf(seq, x) == Cardinality({i \in 1..Len(seq) : seq[i] = x})

-----------------------------------------------------------------------------
(* The state machine                                                       *)

Init ==
    /\ builder = None
    /\ ops = <<>>
    /\ args = <<>>
    /\ client = None
    /\ pc = "idle"
    /\ call = None
    /\ headers = HeaderMap_new
    /\ response = None
    /\ result = None
    /\ sent = <<>>
    /\ tasks = <<>>
    /\ request = None
    /\ lastCall = None
    /\ payload = None

UnchangedCall ==
    UNCHANGED <<pc, call, headers, response, result, sent, tasks, request, lastCall, payload>>

\* Client::builder() / ClientBuilder::new()
New ==
    /\ builder = None
    /\ client = None
    /\ builder' = Some(ClientBuilder_new)
    /\ ops' = <<"new">>
    /\ args' = <<None>>
    /\ UNCHANGED client
    /\ UnchangedCall

\* ClientBuilder<()>::auth
Auth ==
    /\ builder # None
    /\ IsUnit(builder[1].auth)
    /\ \E strategy \in Strategies :
          /\ builder' = Some(ClientBuilder_auth(builder[1], strategy))
          /\ args' = Append(args, Some(strategy))
    /\ ops' = Append(ops, "auth")
    /\ UNCHANGED client
    /\ UnchangedCall

\* ClientBuilder<A: AuthStrategy>::base_url, with the url drawn from urls and at most
\* max calls on one builder
BaseUrlFrom(urls, max) ==
    /\ builder # None
    /\ IsAuthStrategy(builder[1].auth)
    /\ CountOf(ops, "base_url") < max
    /\ \E url \in urls :
          /\ builder' = Some(ClientBuilder_base_url(builder[1], url))
          /\ args' = Append(args, Some(url))
    /\ ops' = Append(ops, "base_url")
    /\ UNCHANGED client
    /\ UnchangedCall

BaseUrl == BaseUrlFrom(BaseUrls, MaxBaseUrlCalls)

\* ClientBuilder<A: AuthStrategy>::build; self is moved into the Client
Build ==
    /\ builder # None
    /\ IsAuthStrategy(builder[1].auth)
    /\ client' = Some(ClientBuilder_build(builder[1]))
    /\ builder' = None
    /\ ops' = Append(ops, "build")
    /\ args' = Append(args, None)
    /\ UnchangedCall

\* "application/json"
APPLICATION_JSON == <<97, 112, 112, 108, 105, 99, 97, 116, 105, 111, 110, 47, 106, 115, 111, 110>>

\* the header collection a request starts from: get line 70, post lines 86-87
InitialHeaders(method) ==
    IF method = "POST" THEN insert(HeaderMap_new, "content-type", APPLICATION_JSON)
    ELSE HeaderMap_new

Call(op, T, method, url, model_id) ==
    [op |-> op, T |-> T, method |-> method, url |-> url, model_id |-> model_id]

\* Client::get / Client::post up to the send: the headers are built and the
\* strategy applied; a panic in apply unwinds the task
Begin(c) ==
    /\ pc = "idle"
    /\ client # None
    /\ call' = Some(c)
    /\ LET applied == apply(client[1].auth[1], InitialHeaders(c.method))
       IN  /\ headers' = IF applied.outcome = "Ok" THEN applied.headers ELSE HeaderMap_new
           /\ pc' = IF applied.outcome = "Ok" THEN "send" ELSE "panicked"
    /\ sent' = <<>>
    /\ UNCHANGED <<request, lastCall, payload, tasks, builder, ops, args, client, response, result>>

create_chat_completion ==
    client # None /\
    Begin(Call("create_chat_completion", "CreateChatCompletionResponse", "POST",
               client[1].base_url \o "/chat/completions", ""))

list_models ==
    client # None /\
    Begin(Call("list_models", "ModelList", "GET", client[1].base_url \o "/models", ""))

get_model ==
    client # None /\
    \E model_id \in ModelIds :
        Begin(Call("get_model", "ModelList", "GET", client[1].base_url \o "/models", model_id))

get_generation ==
    client # None /\
    \E generation_id \in GenerationIds :
        Begin(Call("get_generation", "GenerationStats", "GET",
                   client[1].base_url \o "/generation?id=" \o generation_id, ""))

get_credits ==
    client # None /\
    Begin(Call("get_credits", "CreditsResponse", "GET", client[1].base_url \o "/auth/key", ""))

Responses == [status : Statuses, retry_after : RetryAfterHeaders, body : Bodies]

\* the request that http.get(url).headers(headers) / http.post(url).headers(headers)
\* hands to the transport
HttpRequest(c, h) == [method |-> c.method, url |-> c.url, headers |-> h]

\* a variant of the failed send that tries again before giving up
SendFailsRetry ==
    /\ pc = "send"
    /\ sent' = Append(sent, HttpRequest(call[1], headers))
    /\ IF Len(sent') < 2
       THEN UNCHANGED <<pc, result>>
       ELSE result' = Some(Request) /\ pc' = "done"
    /\ UNCHANGED <<request, lastCall, payload, tasks, builder, ops, args, client, call, headers, response>>

\* send().await? when the transport fails
SendFails ==
    /\ pc = "send"
    /\ sent' = Append(sent, HttpRequest(call[1], headers))
    /\ result' = Some(Request)
    /\ pc' = "done"
    /\ UNCHANGED <<request, lastCall, payload, tasks, builder, ops, args, client, call, headers, response>>

\* send().await? when the transport delivers one of the responses resps
Receive(resps) ==
    /\ pc = "send"
    /\ sent' = Append(sent, HttpRequest(call[1], headers))
    /\ \E resp \in resps : response' = Some(resp)
    /\ pc' = "handle"
    /\ UNCHANGED <<request, lastCall, payload, tasks, builder, ops, args, client, call, headers, result>>

SendReceives == Receive(Responses)

\* handle_response, and for get_model the search that follows it
HandleResponse ==
    /\ pc = "handle"
    /\ LET handled == handle_response(call[1].T, response[1])
       IN  result' = Some(IF call[1].op = "get_model"
                          THEN get_model_result(handled, call[1].model_id)
                          ELSE handled)
    /\ pc' = "done"
    /\ UNCHANGED <<request, lastCall, payload, tasks, builder, ops, args, client, call, headers, response, sent>>

\* the caller has the result; the call's locals are gone
Return ==
    /\ pc = "done"
    /\ pc' = "idle"
    /\ call' = None
    /\ headers' = HeaderMap_new
    /\ response' = None
    /\ result' = None
    /\ sent' = <<>>
    /\ UNCHANGED <<request, lastCall, payload, tasks, builder, ops, args, client>>

Next ==
    \/ New
    \/ Auth
    \/ BaseUrl
    \/ Build
    \/ create_chat_completion
    \/ list_models
    \/ get_model
    \/ get_generation
    \/ get_credits
    \/ SendFails
    \/ SendReceives
    \/ HandleResponse
    \/ Return

Spec == Init /\ [][Next]_vars

-----------------------------------------------------------------------------
(* The same machine with a builder whose base URL is overridden repeatedly  *)
(* and a transport that answers from a few responses                        *)

\* how many times base_url is called on one builder here
MaxOverrides == 2

OverrideUrls == {"https://custom.api.com", "http://localhost:8080"}

FewResponses ==
    [status : {200, 429, 503},
     retry_after : {None},
     body : {ModelsBody(<<>>), ErrorBody(JStr("m1"), Absent, Absent), TextBody("")}]

BaseUrlAgain == BaseUrlFrom(OverrideUrls, MaxOverrides)

SendReceivesFew == Receive(FewResponses)

NextLifetime ==
    \/ New
    \/ Auth
    \/ BaseUrlAgain
    \/ Build
    \/ create_chat_completion
    \/ list_models
    \/ get_model
    \/ get_generation
    \/ get_credits
    \/ SendFails
    \/ SendReceivesFew
    \/ HandleResponse
    \/ Return

SpecLifetime == Init /\ [][NextLifetime]_vars

-----------------------------------------------------------------------------
(* Several callers on one shared Client: every caller runs the steps of get *)
(* or post on its own locals, in any interleaving with the others           *)

NumCallers == 2

Callers == 1..NumCallers

ConcurrentResponses ==
    {[status |-> 200, retry_after |-> None,
      body |-> ModelsBody(<<ModelEntry(JStr("a"), JStr("x"))>>)],
     [status |-> 200, retry_after |-> None, body |-> TextBody("")],
     [status |-> 429, retry_after |-> Some(<<51, 48>>),
      body |-> ErrorBody(JStr("m1"), Absent, Absent)],
     [status |-> 503, retry_after |-> None, body |-> TextBody("<html>Bad Gateway</html>")]}

\* the locals of one call: its position, its arguments, its HeaderMap, the response
\* and the Result
Task(p, c, h, resp, res) ==
    [pc |-> p, call |-> c, headers |-> h, response |-> resp, result |-> res]

IdleTask == Task("idle", None, HeaderMap_new, None, None)

\* the calls the five endpoint methods make on a client
EndpointCalls(c) ==
    {Call("create_chat_completion", "CreateChatCompletionResponse", "POST",
          c.base_url \o "/chat/completions", ""),
     Call("list_models", "ModelList", "GET", c.base_url \o "/models", ""),
     Call("get_credits", "CreditsResponse", "GET", c.base_url \o "/auth/key", "")}
    \cup {Call("get_model", "ModelList", "GET", c.base_url \o "/models", model_id) :
            model_id \in ModelIds}
    \cup {Call("get_generation", "GenerationStats", "GET",
               c.base_url \o "/generation?id=" \o generation_id, "") :
            generation_id \in GenerationIds}

RECURSIVE MergeHeaders(_, _, _)
MergeHeaders(ts, rest, h) ==
    IF rest = {} THEN h
    ELSE LET u == CHOOSE x \in rest : TRUE
             names == DOMAIN ts[u].headers
         IN  MergeHeaders(ts, rest \ {u},
                          [n \in (DOMAIN h) \cup names |->
                                IF n \in DOMAIN h THEN h[n] ELSE ts[u].headers[n]])

\* a variant in which the header collection is one map kept for all calls: a call
\* starts from what the calls in flight have put there
SharedInitialHeaders(ts, t, method) ==
    MergeHeaders(ts, DOMAIN ts \ {t}, InitialHeaders(method))

\* let mut headers = HeaderMap::new(): a local of the call of task t, whatever the
\* other tasks ts hold
TaskInitialHeaders(ts, t, method) == InitialHeaders(method)

InitConcurrent ==
    /\ \E strategy \in Strategies :
          /\ client = Some(ClientBuilder_build(ClientBuilder_auth(ClientBuilder_new, strategy)))
          /\ args = <<None, Some(strategy), None>>
    /\ ops = <<"new", "auth", "build">>
    /\ builder = None
    /\ pc = "idle"
    /\ call = None
    /\ headers = HeaderMap_new
    /\ response = None
    /\ result = None
    /\ sent = <<>>
    /\ tasks = [t \in Callers |-> IdleTask]
    /\ request = None
    /\ lastCall = None
    /\ payload = None

UnchangedShared ==
    UNCHANGED <<builder, ops, args, client, pc, call, headers, response, result, sent,
                request, lastCall, payload>>

\* a caller enters an endpoint method: get / post up to the send
TaskBegin ==
    /\ \E t \in Callers, c \in EndpointCalls(client[1]) :
          /\ tasks[t].pc = "idle"
          /\ LET applied == apply(client[1].auth[1], TaskInitialHeaders(tasks, t, c.method))
             IN  tasks' = [tasks EXCEPT ![t] =
                             IF applied.outcome = "Ok"
                             THEN Task("send", Some(c), applied.headers, None, None)
                             ELSE Task("panicked", Some(c), HeaderMap_new, None, None)]
    /\ UnchangedShared

\* send().await? of one caller when the transport fails
TaskSendFails ==
    /\ \E t \in Callers :
          /\ tasks[t].pc = "send"
          /\ tasks' = [tasks EXCEPT ![t].pc = "done", ![t].result = Some(Request)]
    /\ UnchangedShared

\* send().await? of one caller when the transport delivers the response to its request
TaskReceives ==
    /\ \E t \in Callers, resp \in ConcurrentResponses :
          /\ tasks[t].pc = "send"
          /\ tasks' = [tasks EXCEPT ![t].pc = "handle", ![t].response = Some(resp)]
    /\ UnchangedShared

\* handle_response of one caller, and for get_model the search that follows it
TaskHandles ==
    /\ \E t \in Callers :
          /\ tasks[t].pc = "handle"
          /\ LET c == tasks[t].call[1]
                 handled == handle_response(c.T, tasks[t].response[1])
             IN  tasks' = [tasks EXCEPT
                             ![t].pc = "done",
                             ![t].result = Some(IF c.op = "get_model"
                                                THEN get_model_result(handled, c.model_id)
                                                ELSE handled)]
    /\ UnchangedShared

\* one caller has its result
TaskReturns ==
    /\ \E t \in Callers :
          /\ tasks[t].pc = "done"
          /\ tasks' = [tasks EXCEPT ![t] = IdleTask]
    /\ UnchangedShared

NextConcurrent ==
    \/ TaskBegin
    \/ TaskSendFails
    \/ TaskReceives
    \/ TaskHandles
    \/ TaskReturns

SpecConcurrent == InitConcurrent /\ [][NextConcurrent]_vars

-----------------------------------------------------------------------------
(* types.rs: Message and CreateChatCompletionRequest, lines 15-297          *)

Message(role, content, tool_call_id) ==
    [role |-> role, content |-> content, tool_calls |-> None, tool_call_id |-> tool_call_id]

Message_system(content) == Message("system", Some(content), None)

Message_user(content) == Message("user", Some(content), None)

Message_tool(tool_call_id, content) == Message("tool", Some(content), Some(tool_call_id))

\* Tool::function(name, description, parameters), already in its JSON form
ToolWeather ==
    "{\"type\":\"function\",\"function\":{\"name\":\"weather\",\"description\":\"d\",\"parameters\":null}}"

\* ProviderPreferences with only allow_fallbacks set, and with nothing set; its
\* other five fields are None in both and so have no member in the JSON
ProviderNoFallbacks == [allow_fallbacks |-> Some(FALSE)]
ProviderDefault == [allow_fallbacks |-> None]

RequestModels == {"openai/gpt-4o", "m"}

RequestMessages == {<<Message_user("Hello")>>,
                    <<Message_system("S"), Message_tool("t1", "42")>>}

\* the arguments the with_* calls are given; an f32 is written as its decimal text
MaxTokensValues == {1024, 0}
TemperatureValues == {"0.7", "NaN"}
TopPValues == {"0.9"}
StopValues == {<<>>, <<"END">>}
ToolsValues == {<<ToolWeather>>}
ProviderValues == {ProviderNoFallbacks, ProviderDefault}
FallbackModelsValues == {<<"m2">>}
RouteValues == {"fallback"}

CreateChatCompletionRequest_new(model, messages) ==
    [model |-> model, messages |-> messages,
     max_tokens |-> None, temperature |-> None, top_p |-> None, stop |-> None,
     tools |-> None, stream |-> None, n |-> None, presence_penalty |-> None,
     frequency_penalty |-> None, provider |-> None, models |-> None, route |-> None]

with_max_tokens(r, max_tokens) == [r EXCEPT !.max_tokens = Some(max_tokens)]

with_temperature(r, temperature) == [r EXCEPT !.temperature = Some(temperature)]

with_top_p(r, top_p) == [r EXCEPT !.top_p = Some(top_p)]

with_stop(r, stop) == [r EXCEPT !.stop = Some(stop)]

with_tools(r, tools) == [r EXCEPT !.tools = Some(tools)]

with_provider(r, provider) == [r EXCEPT !.provider = Some(provider)]

with_fallback_models(r, models) == [r EXCEPT !.models = Some(models)]

with_route(r, route) == [r EXCEPT !.route = Some(route)]

-----------------------------------------------------------------------------
(* The JSON that #[derive(Serialize)] writes, as a sequence of members      *)
(* <<name, value text>> in field order                                       *)

Quoted(x) == "\"" \o x \o "\""

RECURSIVE JoinWith(_, _)
JoinWith(items, sep) ==
    IF Len(items) = 0 THEN ""
    ELSE IF Len(items) = 1 THEN items[1]
    ELSE items[1] \o sep \o JoinWith(Tail(items), sep)

JsonArray(items) == "[" \o JoinWith(items, ",") \o "]"

JsonObject(members) ==
    "{" \o JoinWith([i \in 1..Len(members) |-> Quoted(members[i][1]) \o ":" \o members[i][2]], ",")
        \o "}"

\* serde_json writes a float that is not finite as null
JsonFloat(x) == IF x \in {"NaN", "inf", "-inf"} THEN "null" ELSE x

JsonBool(b) == IF b THEN "true" ELSE "false"

\* Option::map
MapSome(opt, value) == IF opt = None THEN None ELSE Some(value)

\* a variant of an optional field without the skip attribute: None is written as null
OptionalMemberNull(name, rendered) ==
    IF rendered = None THEN << <<name, "null">> >> ELSE << <<name, rendered[1]>> >>

\* a field with #[serde(skip_serializing_if = "Option::is_none")]; rendered is the
\* Option of the value's JSON text
OptionalMember(name, rendered) ==
    IF rendered = None THEN <<>> ELSE << <<name, rendered[1]>> >>

MessageJson(m) ==
    JsonObject(<< <<"role", Quoted(m.role)>> >>
               \o OptionalMember("content", MapSome(m.content, Quoted(m.content[1])))
               \o OptionalMember("tool_calls", MapSome(m.tool_calls, "[]"))
               \o OptionalMember("tool_call_id",
                                 MapSome(m.tool_call_id, Quoted(m.tool_call_id[1]))))

ProviderJson(p) ==
    JsonObject(OptionalMember("allow_fallbacks",
                              MapSome(p.allow_fallbacks, JsonBool(p.allow_fallbacks[1]))))

Strings(items) == JsonArray([i \in 1..Len(items) |-> Quoted(items[i])])

\* serde_json::to_vec(&request), the body that .json(body) sends
to_json(r) ==
    << <<"model", Quoted(r.model)>>,
       <<"messages", JsonArray([i \in 1..Len(r.messages) |-> MessageJson(r.messages[i])])>> >>
    \o OptionalMember("max_tokens", MapSome(r.max_tokens, ToString(r.max_tokens[1])))
    \o OptionalMember("temperature", MapSome(r.temperature, JsonFloat(r.temperature[1])))
    \o OptionalMember("top_p", MapSome(r.top_p, JsonFloat(r.top_p[1])))
    \o OptionalMember("stop", MapSome(r.stop, Strings(r.stop[1])))
    \o OptionalMember("tools", MapSome(r.tools, JsonArray(r.tools[1])))
    \o OptionalMember("stream", MapSome(r.stream, JsonBool(r.stream[1])))
    \o OptionalMember("n", MapSome(r.n, ToString(r.n[1])))
    \o OptionalMember("presence_penalty",
                      MapSome(r.presence_penalty, JsonFloat(r.presence_penalty[1])))
    \o OptionalMember("frequency_penalty",
                      MapSome(r.frequency_penalty, JsonFloat(r.frequency_penalty[1])))
    \o OptionalMember("provider", MapSome(r.provider, ProviderJson(r.provider[1])))
    \o OptionalMember("models", MapSome(r.models, Strings(r.models[1])))
    \o OptionalMember("route", MapSome(r.route, Quoted(r.route[1])))

-----------------------------------------------------------------------------
(* Building and serializing one chat-completion request                     *)

InitRequest ==
    /\ Init
    /\ request = None

UnchangedClient ==
    UNCHANGED <<builder, ops, args, client, pc, call, headers, response, result, sent, tasks>>

BuilderCall(op, arg) == [op |-> op, arg |-> arg]

\* CreateChatCompletionRequest::new
NewRequest ==
    /\ request = None
    /\ \E model \in RequestModels, messages \in RequestMessages :
          request' = Some(CreateChatCompletionRequest_new(model, messages))
    /\ lastCall' = Some(BuilderCall("new", None))
    /\ UNCHANGED payload
    /\ UnchangedClient

\* one with_* call on the request under construction
With(op, arg, next) ==
    /\ request # None
    /\ payload = None
    /\ request' = Some(next)
    /\ lastCall' = Some(BuilderCall(op, Some(arg)))
    /\ UNCHANGED payload
    /\ UnchangedClient

WithMaxTokens ==
    \E v \in MaxTokensValues :
        request # None /\ With("with_max_tokens", v, with_max_tokens(request[1], v))

WithTemperature ==
    \E v \in TemperatureValues :
        request # None /\ With("with_temperature", v, with_temperature(request[1], v))

WithTopP ==
    \E v \in TopPValues :
        request # None /\ With("with_top_p", v, with_top_p(request[1], v))

WithStop ==
    \E v \in StopValues :
        request # None /\ With("with_stop", v, with_stop(request[1], v))

WithTools ==
    \E v \in ToolsValues :
        request # None /\ With("with_tools", v, with_tools(request[1], v))

WithProvider ==
    \E v \in ProviderValues :
        request # None /\ With("with_provider", v, with_provider(request[1], v))

WithFallbackModels ==
    \E v \in FallbackModelsValues :
        request # None /\ With("with_fallback_models", v, with_fallback_models(request[1], v))

WithRoute ==
    \E v \in RouteValues :
        request # None /\ With("with_route", v, with_route(request[1], v))

\* the request is serialized as the body of the POST
Serialize ==
    /\ request # None
    /\ payload = None
    /\ payload' = Some(to_json(request[1]))
    /\ lastCall' = Some(BuilderCall("to_json", None))
    /\ UNCHANGED request
    /\ UnchangedClient

NextRequest ==
    \/ NewRequest
    \/ WithMaxTokens
    \/ WithTemperature
    \/ WithTopP
    \/ WithStop
    \/ WithTools
    \/ WithProvider
    \/ WithFallbackModels
    \/ WithRoute
    \/ Serialize

SpecRequest == InitRequest /\ [][NextRequest]_vars

-----------------------------------------------------------------------------
(* Properties                                                              *)

\* a call has been answered and classified
Classified == pc = "done" /\ response # None

TableStatuses == {401, 402, 403, 404, 429} \cup (500..599)

\* {error: {message, type?, code?}} as the vendor documents it: a text message,
\* a text type if any, a whole-number code if any
WellFormedEnvelope(body) ==
    /\ body.k = "error"
    /\ body.error.message.t = "str"
    /\ body.error.type.t \in {"absent", "str"}
    /\ body.error.code.t \in {"absent", "int"}

Readable(body) == body.k # "unreadable"

Parseable(body) == Readable(body) /\ ParseErrorResponse(body) # None

\* C1: a non-2xx response with a well-formed vendor envelope is classified by its
\* status alone: 401 Unauthorized, 402 InsufficientCredits(message), 403
\* Forbidden(message), 404 NotFound(message), 429 RateLimited, 500..599
\* ServerError(message), the message being the envelope's.
C1_StatusTable ==
    (Classified /\ ~is_success(response[1].status) /\ WellFormedEnvelope(response[1].body)) =>
        LET status == response[1].status
            message == response[1].body.error.message.s
            res == result[1]
        IN  /\ status = 401 => res = Unauthorized
            /\ status = 402 => res = InsufficientCredits(message)
            /\ status = 403 => res = Forbidden(message)
            /\ status = 404 => res = NotFound(message)
            /\ status = 429 => res.kind = "RateLimited"
            /\ status \in 500..599 => res = ServerError(message)

C1_Witness ==
    /\ Classified
    /\ response[1].status = 599
    /\ response[1].body = ErrorBody(JStr("m2"), Absent, JInt(404))
    /\ result[1] = ServerError("m2")

\* a header of decimal digits only
AllDigits(header) ==
    header # None /\ Len(header[1]) > 0 /\ \A i \in 1..Len(header[1]) : IsDigit(header[1][i])

\* a header the unsigned parse accepts: decimal digits after an optional '+'
UnsignedDecimal(header) ==
    \/ AllDigits(header)
    \/ header # None /\ Len(header[1]) > 1 /\ header[1][1] = 43 /\ AllDigits(Some(Tail(header[1])))

UnsignedValue(header) ==
    IF header[1][1] = 43 THEN DigitsValue(Tail(header[1])) ELSE DigitsValue(header[1])

\* C2 as stated: every 429 response is RateLimited, with the header's value when the
\* header is a number and 60 when it is absent or not a number.
C2_Original ==
    (Classified /\ response[1].status = 429) =>
        LET header == response[1].retry_after
        IN  /\ AllDigits(header) => result[1] = RateLimited(DigitsValue(header[1]))
            /\ (header = None \/ header \in {Some(<<97>>), Some(<<>>), Some(<<233>>)})
                    => result[1] = RateLimited(60)

\* C2 amended: a 429 response whose body parses as the vendor envelope is RateLimited;
\* retry_after is the header's value when the header is an unsigned decimal integer
\* (digits, optionally after '+'), and 60 for every other header or none; a 429 whose
\* body does not parse is Api{429, body text}.
C2_RetryAfter ==
    (Classified /\ response[1].status = 429 /\ Readable(response[1].body)) =>
        LET header == response[1].retry_after
        IN  IF Parseable(response[1].body)
            THEN result[1] = RateLimited(IF UnsignedDecimal(header)
                                         THEN UnsignedValue(header) ELSE 60)
            ELSE result[1] = Api(429, text(response[1].body))

C2_Witness ==
    /\ Classified
    /\ response[1].status = 429
    /\ Parseable(response[1].body)
    /\ \/ response[1].retry_after = Some(<<51, 48>>) /\ result[1] = RateLimited(30)
       \/ response[1].retry_after = Some(<<45, 53>>) /\ result[1] = RateLimited(60)

\* C3: for status 401, 403, 404, 429 and 5xx the status decides the error kind whatever
\* the envelope's code field is: missing, not a number, or a number that contradicts
\* the status.
C3_StatusBeforeCode ==
    (/\ Classified
     /\ response[1].body.k = "error"
     /\ response[1].body.error.message.t = "str"
     /\ response[1].body.error.type.t \in {"absent", "str"}) =>
        LET status == response[1].status
            kind == result[1].kind
        IN  /\ status = 401 => kind = "Unauthorized"
            /\ status = 403 => kind = "Forbidden"
            /\ status = 404 => kind = "NotFound"
            /\ status = 429 => kind = "RateLimited"
            /\ status \in 500..599 => kind = "ServerError"

\* C4: a non-2xx response whose body does not parse as the vendor envelope is
\* Api{status, body text}; no classified error response is a JSON decode error or a
\* success, and classification never panics.
C4_UnparseableIsApi ==
    /\ (Classified /\ ~is_success(response[1].status) /\ Readable(response[1].body)) =>
            /\ ~Parseable(response[1].body) =>
                    result[1] = Api(response[1].status, text(response[1].body))
            /\ result[1].kind \notin {"Json", "Ok", "Request"}
    /\ pc = "panicked" => response = None

C4_Witness ==
    /\ Classified
    /\ response[1].status = 503
    /\ response[1].body = TextBody("<html>Bad Gateway</html>")
    /\ result[1] = Api(503, "<html>Bad Gateway</html>")

\* C5: a non-2xx status outside the table with a parseable envelope falls back to the
\* vendor code: 400 InvalidRequest(message), 404 ModelNotAvailable(message), anything
\* else or nothing Api{status, message}.
C5_VendorCodeFallback ==
    (/\ Classified
     /\ ~is_success(response[1].status)
     /\ response[1].status \notin TableStatuses
     /\ Parseable(response[1].body)) =>
        LET status == response[1].status
            message == response[1].body.error.message.s
            code == response[1].body.error.code
        IN  IF code = JInt(400) THEN result[1] = InvalidRequest(message)
            ELSE IF code = JInt(404) THEN result[1] = ModelNotAvailable(message)
            ELSE result[1] = Api(status, message)

C5_Witness ==
    /\ Classified
    /\ response[1].status = 418
    /\ response[1].body = ErrorBody(JStr("m1"), Absent, JInt(400))
    /\ result[1] = InvalidRequest("m1")

\* C6: a 2xx response whose body does not decode as the endpoint's record is the JSON
\* error; a success is returned only for a 2xx response whose body decoded, and
\* list_models, get_generation, get_credits and create_chat_completion return the
\* decoded record itself.
C6_DecodeFailureIsJson ==
    Classified =>
        LET status == response[1].status
            body == response[1].body
            decoded == Decode(call[1].T, body)
        IN  /\ (is_success(status) /\ Readable(body) /\ decoded = None) => result[1] = Json
            /\ result[1].kind = "Ok" => (is_success(status) /\ Readable(body) /\ decoded # None)
            /\ (result[1].kind = "Ok" /\ call[1].op # "get_model") => result[1].value = decoded[1]

C6_Witness ==
    /\ Classified
    /\ response[1].status = 200
    /\ call[1].op = "list_models"
    /\ response[1].body = EmptyObjectBody
    /\ result[1] = Json


AuthHeaderNames == {"authorization", "http-referer", "x-title"}

\* every string the strategy holds can be a header value
ValidStrategy(auth) ==
    /\ IsValidHeaderValue(auth.api_key)
    /\ auth.site_url # None => IsValidHeaderValue(auth.site_url[1])
    /\ auth.site_name # None => IsValidHeaderValue(auth.site_name[1])

\* C7: when apply has run on the request's header collection, Authorization is
\* "Bearer " + key, HTTP-Referer is there exactly when a site URL was configured and
\* is that URL, X-Title is there exactly when a site name was configured and is that
\* name, and every other header is as it was; apply completes for every strategy
\* whose strings are header values.
C7_ApplySetsExactly ==
    call # None =>
        LET auth == client[1].auth[1]
            before == InitialHeaders(call[1].method)
        IN  /\ ValidStrategy(auth) => pc # "panicked"
            /\ pc # "panicked" =>
                /\ "authorization" \in DOMAIN headers
                /\ headers["authorization"] = Bearer \o auth.api_key
                /\ "http-referer" \in DOMAIN headers <=> auth.site_url # None
                /\ auth.site_url # None => headers["http-referer"] = auth.site_url[1]
                /\ "x-title" \in DOMAIN headers <=> auth.site_name # None
                /\ auth.site_name # None => headers["x-title"] = auth.site_name[1]
                /\ DOMAIN headers \ AuthHeaderNames = DOMAIN before \ AuthHeaderNames
                /\ \A n \in DOMAIN before \ AuthHeaderNames : headers[n] = before[n]

C7_Witness ==
    /\ pc = "send"
    /\ call[1].method = "POST"
    /\ client[1].auth[1] = with_site_url(ApiKeyAuth_new(<<115, 107>>), <<117>>)
    /\ DOMAIN headers = {"content-type", "authorization", "http-referer"}
    /\ headers["authorization"] = <<66, 101, 97, 114, 101, 114, 32, 115, 107>>
    /\ headers["http-referer"] = <<117>>
    /\ headers["content-type"] = APPLICATION_JSON

\* C8: when a string the strategy holds is not a valid header value, apply returns an
\* error, the endpoint call returns that error, and nothing panics.
C8_InvalidValueIsError ==
    (call # None /\ ~ValidStrategy(client[1].auth[1])) =>
        /\ pc = "done"
        /\ result # None
        /\ result[1].kind # "Ok"

\* C9: when the listing succeeds, get_model(id) returns the record at the lowest
\* catalog position whose id is id, and NotFound when no record has that id.
C9_FirstMatch ==
    (/\ Classified
     /\ call[1].op = "get_model"
     /\ is_success(response[1].status)
     /\ Decode("ModelList", response[1].body) # None) =>
        LET data == response[1].body.data
            model_id == call[1].model_id
            hits == {i \in 1..Len(data) : data[i].id = JStr(model_id)}
        IN  IF hits = {}
            THEN result[1] = NotFound("Model not found: " \o model_id)
            ELSE LET first == CHOOSE i \in hits : \A j \in hits : i <= j
                 IN  /\ result[1].kind = "Ok"
                     /\ result[1].value.data = <<[id |-> model_id, name |-> data[first].name.s]>>

C9_Witness ==
    /\ Classified
    /\ call[1].op = "get_model"
    /\ call[1].model_id = "a"
    /\ response[1].status = 200
    /\ response[1].body = ModelsBody(<<ModelEntry(JStr("a"), JStr("y")),
                                       ModelEntry(JStr("a"), JStr("x"))>>)
    /\ result[1].kind = "Ok"
    /\ result[1].value.data = <<[id |-> "a", name |-> "y"]>>

\* C10: every sequence of builder operations starts with new, which leaves the
\* builder without a strategy; the builder has a strategy exactly when auth has been
\* called; base_url and build come only after auth; a Client exists only after
\* build, and holds a strategy.
C10_AuthBeforeBuild ==
    /\ ops # <<>> => ops[1] = "new"
    /\ builder # None => (builder[1].auth # None <=> \E i \in 1..Len(ops) : ops[i] = "auth")
    /\ \A i \in 1..Len(ops) :
            ops[i] \in {"base_url", "build"} => \E j \in 1..(i - 1) : ops[j] = "auth"
    /\ client # None =>
            /\ client[1].auth # None
            /\ ops[Len(ops)] = "build"

C10_Witness ==
    /\ client # None
    /\ ops = <<"new", "auth", "base_url", "build">>
    /\ client[1].base_url = "https://custom.api.com"
    /\ client[1].auth # None


\* C11: an endpoint call hands at most one request to the transport: none before
\* the send, one from then on whatever came back, and the call ends with a
\* result, which is an error when the send failed, the body could not be read,
\* the status was not 2xx or the body did not decode.
C11_SingleAttempt ==
    /\ Len(sent) <= 1
    /\ pc \in {"idle", "send", "panicked"} => sent = <<>>
    /\ pc \in {"handle", "done"} => sent = <<HttpRequest(call[1], headers)>>
    /\ pc = "done" =>
        /\ result # None
        /\ response = None => result[1] = Request
        /\ (response # None /\ (\/ ~is_success(response[1].status)
                                \/ ~Readable(response[1].body)
                                \/ Decode(call[1].T, response[1].body) = None))
                => result[1].kind \notin {"Ok"}

C11_Witness ==
    /\ pc = "done"
    /\ call[1].op = "get_model"
    /\ response # None
    /\ response[1].status = 503
    /\ result[1].kind = "ServerError"
    /\ Len(sent) = 1
    /\ sent[1].method = "GET"
    /\ sent[1].url = "https://openrouter.ai/api/v1/models"


\* the positions of an operation in the builder history
Positions(op) == {i \in 1..Len(ops) : ops[i] = op}

Last(S) == CHOOSE i \in S : \A j \in S : j <= i

\* the Client holds the URL of the last base_url call, the production URL when
\* there was none, and the strategy given to auth
C12_AsBuilt ==
    client # None =>
        /\ client[1].base_url =
                IF Positions("base_url") = {} THEN "https://openrouter.ai/api/v1"
                ELSE args[Last(Positions("base_url"))][1]
        /\ Cardinality(Positions("auth")) = 1
        /\ client[1].auth = args[Last(Positions("auth"))]

\* C12: the base URL and the strategy of a Client are those the builder had at
\* build - the last base_url argument or the production URL, and the strategy
\* attached with auth - and no step of any endpoint call, successful or failed,
\* changes them.
C12_FixedAtBuild ==
    /\ []C12_AsBuilt
    /\ [][client # None => client' = client]_vars

C12_Witness ==
    /\ pc = "done"
    /\ result[1].kind = "RateLimited"
    /\ ops = <<"new", "auth", "base_url", "base_url", "build">>
    /\ args[3] = Some("https://custom.api.com")
    /\ args[4] = Some("http://localhost:8080")
    /\ client[1].base_url = "http://localhost:8080"
    /\ client[1].auth = args[2]
    /\ sent[1].url = "http://localhost:8080/models"


\* what a call returns when it runs alone and the transport answers it with resp
SoloResult(c, resp) ==
    LET handled == handle_response(c.T, resp)
    IN  IF c.op = "get_model" THEN get_model_result(handled, c.model_id) ELSE handled

\* the headers a call sends when it runs alone
SoloHeaders(c) == apply(client[1].auth[1], InitialHeaders(c.method))

\* every caller is where it would be alone, with the headers and the result it
\* would have alone
C13_AsIfAlone ==
    \A t \in DOMAIN tasks :
        LET task == tasks[t]
        IN  /\ task.pc = "panicked" => SoloHeaders(task.call[1]).outcome = "Panic"
            /\ task.pc \in {"send", "handle", "done"} =>
                    /\ SoloHeaders(task.call[1]).outcome = "Ok"
                    /\ task.headers = SoloHeaders(task.call[1]).headers
            /\ (task.pc = "done" /\ task.response = None) => task.result = Some(Request)
            /\ (task.pc = "done" /\ task.response # None) =>
                    task.result = Some(SoloResult(task.call[1], task.response[1]))

\* C13: with callers sharing one Client, in every interleaving each call has its
\* own header collection and returns what it would return alone for the response
\* it got; a step of one call changes nothing of another call, and no step
\* changes the Client or its strategy.
C13_CallsIndependent ==
    /\ []C13_AsIfAlone
    /\ [][/\ client' = client
          /\ \A t, u \in DOMAIN tasks :
                (t # u /\ tasks'[t] # tasks[t]) => tasks'[u] = tasks[u]]_vars

C13_Witness ==
    /\ tasks[1].pc = "done"
    /\ tasks[1].call[1].op = "create_chat_completion"
    /\ tasks[1].result[1] = RateLimited(30)
    /\ tasks[2].pc = "done"
    /\ tasks[2].call[1].op = "get_model"
    /\ tasks[2].call[1].model_id = "a"
    /\ tasks[2].result[1].kind = "Ok"
    /\ "content-type" \in DOMAIN tasks[1].headers
    /\ "content-type" \notin DOMAIN tasks[2].headers


OptionalFields ==
    {"max_tokens", "temperature", "top_p", "stop", "tools", "stream", "n",
     "presence_penalty", "frequency_penalty", "provider", "models", "route"}

\* the field each with_* method is for
FieldOf(op) ==
    CASE op = "with_max_tokens" -> "max_tokens"
      [] op = "with_temperature" -> "temperature"
      [] op = "with_top_p" -> "top_p"
      [] op = "with_stop" -> "stop"
      [] op = "with_tools" -> "tools"
      [] op = "with_provider" -> "provider"
      [] op = "with_fallback_models" -> "models"
      [] op = "with_route" -> "route"

PayloadNames == {payload[1][i][1] : i \in 1..Len(payload[1])}

\* the payload has model, messages and one member for each optional field that is
\* set, none for a field that is not, and the members of model and messages
\* carry the request's values
C14_PayloadHasSetFields ==
    payload # None =>
        /\ PayloadNames = {"model", "messages"}
                            \cup {f \in OptionalFields : request[1][f] # None}
        /\ Len(payload[1]) = Cardinality(PayloadNames)
        /\ payload[1][1] = <<"model", Quoted(request[1].model)>>
        /\ \A i \in 1..Len(payload[1]) :
                (payload[1][i][1] \in OptionalFields /\ payload[1][i][2] = "null")
                    => request[1][payload[1][i][1]] # None

\* a with_* step sets its own field to its argument and nothing else
C14_WithSetsOwnField ==
    (lastCall' # None /\ lastCall'[1].op \notin {"new", "to_json"} /\ request # None) =>
        request' = Some([request[1] EXCEPT ![FieldOf(lastCall'[1].op)] = lastCall'[1].arg])

\* C14: after new(model, messages) each with_* call sets its own optional field
\* to the given value and leaves model, messages and the other fields as they
\* were; the serialized payload has model, messages and exactly the optional
\* fields that are set, and a field that is not set has no member, so no null.
C14_RequestFrame ==
    /\ []C14_PayloadHasSetFields
    /\ [][C14_WithSetsOwnField]_vars

C14_Witness ==
    /\ payload # None
    /\ request[1].model = "openai/gpt-4o"
    /\ request[1].messages = <<Message_user("Hello")>>
    /\ request[1].max_tokens = Some(1024)
    /\ request[1].temperature = Some("0.7")
    /\ payload[1] = << <<"model", "\"openai/gpt-4o\"">>,
                       <<"messages", "[{\"role\":\"user\",\"content\":\"Hello\"}]">>,
                       <<"max_tokens", "1024">>,
                       <<"temperature", "0.7">> >>

====
